---- MODULE Spec2Model ----
(***************************************************************************)
(* Tap-on-Face Attendance (src/streamlit_app.py): the roster, the face     *)
(* boxes of the current detection pass, the letterbox fit of the photo in  *)
(* the canvas, the assignment dialogs and the attendance report, as a      *)
(* state machine with one action per Tk callback.                          *)
(*                                                                         *)
(* Conventions.                                                            *)
(*  - A Python str is a sequence of one-character strings.                 *)
(*  - The roster DataFrame is the sequence of its rows; pandas gives a     *)
(*    freshly read CSV the RangeIndex 0..n-1, so roster index i is row     *)
(*    df[i+1].  A CSV without a Section column and a row whose Section is  *)
(*    "" are displayed and reported alike (lines 36, 311): both are        *)
(*    modelled as Section = <<>>.                                          *)
(*  - None is NoIdx for assigned_idx, NoImage for image, "" for the paths. *)
(*  - A float is the exact rational [n, d] in lowest terms.  Every photo   *)
(*    and canvas size used below gives a scale that is a power of two, for *)
(*    which the double arithmetic of the source is exact.                  *)
(***************************************************************************)
EXTENDS Integers, Sequences, FiniteSets, Bags, TLC

\* ---------------------------------------------------------------- bounds
MaxFaces == 2       \* rectangles one detector call returns, at most
MaxDialogs == 1     \* assignment dialogs open at the same time, at most
MaxClock == 1       \* seconds the wall clock advances, at most
MaxQueryLen == 2    \* characters typed into a search box, at most

\* ---------------------------------------------------------------- strings
Chars == {"A", "a", "B", "b", "n", "o", "1", "2", " "}

\* str.lower, one character
LowerChar(c) ==
    CASE c = "A" -> "a"
      [] c = "B" -> "b"
      [] OTHER -> c

\* str.lower
Lower(s) == [i \in 1..Len(s) |-> LowerChar(s[i])]

RECURSIVE LStrip(_)
LStrip(s) == IF s # <<>> /\ Head(s) = " " THEN LStrip(Tail(s)) ELSE s

RECURSIVE RStrip(_)
RStrip(s) ==
    IF s # <<>> /\ s[Len(s)] = " " THEN RStrip(SubSeq(s, 1, Len(s) - 1)) ELSE s

\* str.strip
Strip(s) == RStrip(LStrip(s))

\* pandas Series.str.contains(q) for one cell.  The pattern is a regular
\* expression; over Chars (letters, digits, blank) it has no metacharacter
\* and matches exactly where q occurs as a substring.
StrContains(s, q) ==
    \E i \in 1..(Len(s) - Len(q) + 1) : SubSeq(s, i, i + Len(q) - 1) = q

\* ---------------------------------------------------------------- Roster
\* list(self.df.index)
Index(df) == [k \in 1..Len(df) |-> k - 1]

\* idx is a label of df.index (self.df.loc[idx] does not raise KeyError)
HasIdx(df, idx) == idx >= 0 /\ idx < Len(df)

\* Roster.search
Search(df, query) ==
    LET q == Lower(Strip(query))
        mask(i) == \/ StrContains(Lower(df[i + 1].Name), q)
                   \/ StrContains(df[i + 1].Admission_No, q)
    IN  IF q = <<>> THEN Index(df) ELSE SelectSeq(Index(df), mask)

\* Roster.get_display, for HasIdx(df, idx)
GetDisplay(df, idx) ==
    LET r == df[idx + 1]
        sec == IF r.Section # <<>> THEN <<" ", "(">> \o r.Section \o <<")">>
               ELSE <<>>
    IN  r.Name \o sec \o <<" ", " ", "-", " ", " ">> \o r.Admission_No

\* ---------------------------------------------------------------- numbers
RECURSIVE GCD(_, _)
GCD(a, b) == IF b = 0 THEN a ELSE GCD(b, a % b)

\* the float n/d (n >= 0, d > 0), in lowest terms
Rat(n, d) == LET g == GCD(n, d) IN [n |-> n \div g, d |-> d \div g]

\* int(n/d) for d > 0: Python's int() truncates toward zero
IntTrunc(n, d) == IF n >= 0 THEN n \div d ELSE -((-n) \div d)

\* ---------------------------------------------------------------- FaceBox
NoIdx == -1

\* FaceBox.__init__
FaceBox(x, y, w, h, face_id) ==
    [x |-> x, y |-> y, w |-> w, h |-> h, id |-> face_id, assigned_idx |-> NoIdx]

\* FaceBox.contains
Contains(fb, px, py) ==
    /\ fb.x <= px /\ px <= fb.x + fb.w
    /\ fb.y <= py /\ py <= fb.y + fb.h

\* ---------------------------------------------------------------- letterbox
NoImage == [w |-> 0, h |-> 0]

\* Fit with the whole margin as offset, not half of it
FitNotCentred(iw, ih, cw, ch) ==
    LET scale == IF ch * iw < cw * ih THEN Rat(ch, ih) ELSE Rat(cw, iw)
        new_w == IntTrunc(iw * scale.n, scale.d)
        new_h == IntTrunc(ih * scale.n, scale.d)
    IN  [scale |-> scale, new_w |-> new_w, new_h |-> new_h,
         x_off |-> cw - new_w, y_off |-> ch - new_h]

\* Fit with the larger of the two ratios as scale: the photo fills the canvas
FitFill(iw, ih, cw, ch) ==
    LET scale == IF ch * iw < cw * ih THEN Rat(cw, iw) ELSE Rat(ch, ih)
        new_w == IntTrunc(iw * scale.n, scale.d)
        new_h == IntTrunc(ih * scale.n, scale.d)
    IN  [scale |-> scale, new_w |-> new_w, new_h |-> new_h,
         x_off |-> (cw - new_w) \div 2, y_off |-> (ch - new_h) \div 2]

\* App.draw_image, lines 146-150: the fit of an iw x ih image in a cw x ch canvas
Fit(iw, ih, cw, ch) ==
    LET scale == IF ch * iw < cw * ih THEN Rat(ch, ih) ELSE Rat(cw, iw)
        new_w == IntTrunc(iw * scale.n, scale.d)
        new_h == IntTrunc(ih * scale.n, scale.d)
    IN  [scale |-> scale, new_w |-> new_w, new_h |-> new_h,
         x_off |-> (cw - new_w) \div 2, y_off |-> (ch - new_h) \div 2]

\* App.draw_image: the scale and offset it leaves, and whether it raised
\* (Image.resize raises ValueError for a width or height below 1, before
\* lines 155-156 store the new fit).
DrawImage(img, cv, scale, offset) ==
    IF img = NoImage \/ cv.w <= 1 \/ cv.h <= 1
    THEN [scale |-> scale, offset |-> offset, raised |-> FALSE]
    ELSE LET f == Fit(img.w, img.h, cv.w, cv.h)
         IN  IF f.new_w < 1 \/ f.new_h < 1
             THEN [scale |-> scale, offset |-> offset, raised |-> TRUE]
             ELSE [scale |-> f.scale, offset |-> <<f.x_off, f.y_off>>,
                   raised |-> FALSE]

\* App.draw_facebox, lines 163-164: one image coordinate to display coordinates
ToDisplay(p, scale, off) == IntTrunc(p * scale.n, scale.d) + off

\* App.draw_facebox, lines 163-166: the rectangle drawn for fb
DrawFacebox(fb, scale, offset) ==
    [x |-> ToDisplay(fb.x, scale, offset[1]),
     y |-> ToDisplay(fb.y, scale, offset[2]),
     w |-> IntTrunc(fb.w * scale.n, scale.d),
     h |-> IntTrunc(fb.h * scale.n, scale.d)]

\* CanvasToImageCoords with the offset left in
CanvasToImageCoordsNoOffset(px, py, scale, offset) ==
    <<IntTrunc(px * scale.d, scale.n), IntTrunc(py * scale.d, scale.n)>>

\* App.canvas_to_image_coords
CanvasToImageCoords(px, py, scale, offset) ==
    <<IntTrunc((px - offset[1]) * scale.d, scale.n),
      IntTrunc((py - offset[2]) * scale.d, scale.n)>>

\* HitFrom scanning self.faces from the front, not reversed
RECURSIVE HitFromFront(_, _, _, _)
HitFromFront(fs, k, ix, iy) ==
    IF k = 0 THEN 0
    ELSE LET before == HitFromFront(fs, k - 1, ix, iy)
         IN  IF before > 0 THEN before
             ELSE IF Contains(fs[k], ix, iy) THEN k ELSE 0

\* App.on_click, lines 203-206: the position in faces of the last box that
\* contains (ix, iy), scanning faces[1..k] from the back; 0 when none does
RECURSIVE HitFrom(_, _, _, _)
HitFrom(fs, k, ix, iy) ==
    IF k = 0 THEN 0
    ELSE IF Contains(fs[k], ix, iy) THEN k ELSE HitFrom(fs, k - 1, ix, iy)

\* ---------------------------------------------------------------- inputs
Row(adm, name, sec) == [Admission_No |-> adm, Name |-> name, Section |-> sec]

Ann == Row(<<"A", "1">>, <<"A", "n", "n">>, <<>>)
Bob == Row(<<"B", "2">>, <<"B", "o", "b">>, <<>>)
Nab == Row(<<"b", "1">>, <<"n", "A", " ", "b">>, <<"a">>)

\* A CSV file the operator picks: read_csv and the column check of load_csv
\* succeed (ok) or raise; rows are the rows read.
Csv(rows) == [ok |-> TRUE, rows |-> rows]
BadCsv == [ok |-> FALSE, rows |-> <<>>]

\* An image file the operator picks: Image.open succeeds (ok) or raises
BigJpg == [ok |-> TRUE, path |-> "big.jpg", w |-> 800, h |-> 600]
SmallPng == [ok |-> TRUE, path |-> "small.png", w |-> 100, h |-> 80]
BadJpg == [ok |-> FALSE, path |-> "bad.jpg", w |-> 0, h |-> 0]
\* One pixel wide: Image.open succeeds, and the fit in a square canvas has
\* new_w = int(1 * 0.5) = 0
ThinPng == [ok |-> TRUE, path |-> "thin.png", w |-> 1, h |-> 800]

\* winfo_width() x winfo_height(): 1 x 1 until the canvas is laid out
Canvas(w, h) == [w |-> w, h |-> h]

Rect(x, y, w, h) == [x |-> x, y |-> y, w |-> w, h |-> h]

\* The rectangles detectMultiScale can find in a photo (each at least 40 x 40,
\* inside the photo, the first two overlapping; in the small photo the first
\* touches the upper edge)
RectPool(path) ==
    IF path = "big.jpg"
    THEN <<Rect(100, 100, 200, 200), Rect(200, 200, 200, 200), Rect(600, 300, 100, 100)>>
    ELSE <<Rect(10, 0, 40, 40), Rect(30, 20, 40, 40), Rect(55, 35, 40, 40)>>

\* What one detectMultiScale call can return for the pixels of photo `path`:
\* nothing for a photo narrower than minSize = (40, 40)
DetectorOutputs(path) ==
    IF path = "thin.png" THEN { <<>> } ELSE
    { SubSeq(RectPool(path), 1, n) : n \in 0..(IF MaxFaces < 3 THEN MaxFaces ELSE 3) }

\* The operator at work on one class photo (Spec): the files picked, the sizes
\* the canvas takes, the canvas points clicked, the text typed in a dialog
CsvFiles == { Csv(<<Ann, Bob>>), Csv(<<Ann>>), BadCsv }
PhotoFiles == { BigJpg, ThinPng, BadJpg }
CanvasSizes == { Canvas(1, 1), Canvas(400, 400) }
ClickPoints == { <<125, 175>>, <<75, 125>>, <<10, 10>> }
DialogQueries == { <<>>, <<"b">> }

\* The operator resizing the window and clicking around (SpecView): the
\* window can be shrunk until the canvas is one pixel wide
ViewPhotoFiles == { BigJpg, SmallPng }
ViewCanvasSizes ==
    { Canvas(1, 400), Canvas(400, 400), Canvas(200, 200), Canvas(50, 51) }
ViewClickPoints ==
    { <<x, y>> : x \in {0, 49, 50, 100, 125, 150, 151, 200},
                 y \in {39, 99, 100, 125, 175, 200, 201, 250} }

\* The operator searching in a dialog (SpecSearch)
RECURSIVE StringsUpTo(_)
StringsUpTo(n) ==
    IF n = 0 THEN { <<>> }
    ELSE StringsUpTo(n - 1) \cup
         { Append(s, c) : s \in { t \in StringsUpTo(n - 1) : Len(t) = n - 1 }, c \in Chars }

SearchCsvFiles == { Csv(<<Ann, Bob, Nab>>), Csv(<<Bob, Ann>>) }
SearchQueries == StringsUpTo(MaxQueryLen)

\* The operator reloading rosters (SpecRoster): one lists the same student
\* twice (indices 0 and 2), one has the header line and no row
RosterCsvFiles == { Csv(<<Ann, Bob, Ann>>), Csv(<<>>) }
RosterClickPoints == { <<125, 175>>, <<75, 125>> }

\* ---------------------------------------------------------------- state
VARIABLES
    roster,         \* self.roster.df: the rows, roster index i at i + 1
    image,          \* self.image: its size, NoImage for None
    cv_bgr,         \* self.cv_bgr: the file its pixels came from, "" for None
    photo_path,     \* self.photo_path, "" for None
    faces,          \* self.faces
    scale,          \* self.scale
    offset,         \* self.offset
    canvas,         \* the size of self.canvas
    present_list,   \* the rows of self.present_list
    dialogs,        \* the open assign_dialog windows, a bag: fb and the listbox rows
    last            \* the callback that ran last and what it showed or built

vars == <<roster, image, cv_bgr, photo_path, faces, scale, offset, canvas,
          present_list, dialogs, last>>

\* What a callback leaves behind for the operator: the message box it showed
\* (msg); for on_click the image point and the position hit; for on_type the
\* text typed and the indices search returned; for do_assign the box, the
\* index and the confirmations asked; for save_attendance the rows of the
\* DataFrame built.
Last(op, msg) ==
    [op |-> op, msg |-> msg, pt |-> <<0, 0>>, hit |-> 0, q |-> <<>>,
     found |-> <<>>, live |-> FALSE, pos |-> 0, idx |-> NoIdx, asked |-> 0,
     report |-> <<>>]

\* App.__init__
Init ==
    /\ roster = <<>>
    /\ image = NoImage
    /\ cv_bgr = ""
    /\ photo_path = ""
    /\ faces = <<>>
    /\ scale = Rat(1, 1)
    /\ offset = <<0, 0>>
    /\ canvas = [w |-> 1, h |-> 1]
    /\ present_list = <<>>
    /\ dialogs = EmptyBag
    /\ last = Last("init", "")

\* An assign_dialog closure holds its FaceBox by reference: by position while
\* the box is in self.faces (live), detached once self.faces is replaced.
\* Nothing reads a detached box again but draw_facebox, so its fields are
\* dropped.
Detached(dlg) == [dlg EXCEPT !.live = FALSE, !.pos = 0]

Detach(ds) == BagOfAll(Detached, ds)

\* App.assign_dialog, lines 221-226: the dialog opened for faces[pos]; every
\* listbox row is "idx::display" and do_assign reads idx back from it
AssignDialog(df, pos) == [live |-> TRUE, pos |-> pos, items |-> Search(df, <<>>)]

\* Toplevel(...) and dlg.destroy()
Opened(ds, dlg) == ds (+) SetToBag({dlg})

Destroyed(ds, dlg) == ds (-) SetToBag({dlg})

\* ---------------------------------------------------------------- helpers
\* App.refresh_present_list from faces[k] on: the rows inserted after acc,
\* and whether get_display raised KeyError (the rows inserted so far stay)
RECURSIVE RefreshFrom(_, _, _, _, _)
RefreshFrom(fs, df, k, seen, acc) ==
    IF k > Len(fs) THEN [list |-> acc, raised |-> FALSE]
    ELSE LET a == fs[k].assigned_idx
         IN  IF a # NoIdx /\ a \notin seen
             THEN IF HasIdx(df, a)
                  THEN RefreshFrom(fs, df, k + 1, seen \cup {a},
                                   Append(acc, GetDisplay(df, a)))
                  ELSE [list |-> acc, raised |-> TRUE]
             ELSE RefreshFrom(fs, df, k + 1, seen, acc)

\* App.refresh_present_list
RefreshPresentList(fs, df) == RefreshFrom(fs, df, 1, {}, <<>>)

\* Duplicates with the check of lines 240-243 left out
DuplicatesUnchecked(fs, d, idx) == {}

\* App.assign_dialog.do_assign, lines 240-241: the boxes of self.faces other
\* than fb that are assigned idx
Duplicates(fs, d, idx) ==
    { o \in 1..Len(fs) : ~(d.live /\ o = d.pos) /\ fs[o].assigned_idx = idx }

\* CreateBatch with enumerate(faces) counting from 0
CreateBatchFromZero(rects) ==
    [i \in 1..Len(rects) |->
        FaceBox(rects[i].x, rects[i].y, rects[i].w, rects[i].h, i - 1)]

\* App.detect_faces, lines 183-185
CreateBatch(rects) ==
    [i \in 1..Len(rects) |-> FaceBox(rects[i].x, rects[i].y, rects[i].w, rects[i].h, i)]

\* ---------------------------------------------------------------- callbacks
\* App.load_roster with the file picked
LoadRoster(file) ==
    /\ roster' = IF file.ok THEN file.rows ELSE roster
    /\ last' = Last("load_roster", IF file.ok THEN "" ELSE "Roster Error")
    /\ UNCHANGED <<image, cv_bgr, photo_path, faces, scale, offset, canvas,
                   present_list, dialogs>>

\* App.open_photo with the file picked
OpenPhoto(file) ==
    IF ~file.ok
    THEN /\ last' = Last("open_photo", "Photo Error")
         /\ UNCHANGED <<roster, image, cv_bgr, photo_path, faces, scale, offset,
                        canvas, present_list, dialogs>>
    ELSE LET img == [w |-> file.w, h |-> file.h]
             drawn == DrawImage(img, canvas, scale, offset)
         IN  /\ image' = img
             /\ photo_path' = file.path
             /\ cv_bgr' = file.path
             /\ faces' = <<>>
             /\ dialogs' = Detach(dialogs)
             /\ scale' = drawn.scale
             /\ offset' = drawn.offset
             /\ present_list' = IF drawn.raised THEN present_list ELSE <<>>
             /\ last' = Last("open_photo", IF drawn.raised THEN "Photo Error" ELSE "")
             /\ UNCHANGED <<roster, canvas>>

\* App.on_resize: the canvas got the size cv
OnResize(cv) ==
    LET drawn == DrawImage(image, cv, scale, offset)
    IN  /\ canvas' = cv
        /\ scale' = drawn.scale
        /\ offset' = drawn.offset
        /\ last' = Last("on_resize", IF drawn.raised THEN "exception" ELSE "")
        /\ UNCHANGED <<roster, image, cv_bgr, photo_path, faces, present_list, dialogs>>

\* App.detect_faces without a photo
DetectNoPhoto ==
    /\ cv_bgr = ""
    /\ last' = Last("detect_faces", "No Photo")
    /\ UNCHANGED <<roster, image, cv_bgr, photo_path, faces, scale, offset,
                   canvas, present_list, dialogs>>

\* App.detect_faces, the detector returning rects
DetectFaces(rects) ==
    LET drawn == DrawImage(image, canvas, scale, offset)
    IN  /\ cv_bgr # ""
        /\ faces' = CreateBatch(rects)
        /\ dialogs' = Detach(dialogs)
        /\ scale' = drawn.scale
        /\ offset' = drawn.offset
        /\ last' = Last("detect_faces", IF drawn.raised THEN "exception" ELSE "")
        /\ UNCHANGED <<roster, image, cv_bgr, photo_path, canvas, present_list>>

\* App.on_click at the canvas point p: Tk reports a <Button-1> at a pixel of
\* the canvas
OnClick(p) ==
    LET ipt == CanvasToImageCoords(p[1], p[2], scale, offset)
        k == IF faces = <<>> THEN 0 ELSE HitFrom(faces, Len(faces), ipt[1], ipt[2])
    IN  /\ p[1] < canvas.w /\ p[2] < canvas.h
        /\ k > 0 => BagCardinality(dialogs) < MaxDialogs
        /\ dialogs' = IF k > 0 THEN Opened(dialogs, AssignDialog(roster, k)) ELSE dialogs
        /\ last' = [Last("on_click", "") EXCEPT !.pt = ipt, !.hit = k]
        /\ UNCHANGED <<roster, image, cv_bgr, photo_path, faces, scale, offset,
                       canvas, present_list>>

\* App.assign_dialog.on_type: the search box of dialog d now reads q
OnType(d, q) ==
    /\ dialogs' = Opened(Destroyed(dialogs, d), [d EXCEPT !.items = Search(roster, q)])
    /\ last' = [Last("on_type", "") EXCEPT !.q = q, !.found = Search(roster, q)]
    /\ UNCHANGED <<roster, image, cv_bgr, photo_path, faces, scale, offset,
                   canvas, present_list>>

\* The Cancel button of dialog d
Cancel(d) ==
    /\ dialogs' = Destroyed(dialogs, d)
    /\ last' = Last("cancel", "")
    /\ UNCHANGED <<roster, image, cv_bgr, photo_path, faces, scale, offset,
                   canvas, present_list>>

\* App.assign_dialog.do_assign in dialog d with nothing selected
DoAssignNoSelection(d) ==
    /\ last' = Last("do_assign", "Select a student from the list.")
    /\ UNCHANGED <<roster, image, cv_bgr, photo_path, faces, scale, offset,
                   canvas, present_list, dialogs>>

\* App.assign_dialog.do_assign in dialog d with listbox row sel selected; the
\* operator answers yes to every "Duplicate" question (declineAt = 0) or no to
\* question number declineAt
DoAssign(d, sel, declineAt) ==
    LET idx == d.items[sel]
        dups == Duplicates(faces, d, idx)
        assigned == IF d.live THEN [faces EXCEPT ![d.pos].assigned_idx = idx]
                    ELSE faces
        shown == RefreshPresentList(assigned, roster)
        done == [Last("do_assign", "") EXCEPT !.live = d.live, !.pos = d.pos,
                                              !.idx = idx]
    IN  /\ declineAt <= Cardinality(dups)
        /\ IF declineAt > 0
           THEN /\ last' = [done EXCEPT !.msg = "declined", !.asked = declineAt]
                /\ UNCHANGED <<faces, present_list, dialogs>>
           ELSE /\ faces' = assigned
                /\ present_list' = shown.list
                /\ dialogs' = IF shown.raised THEN dialogs ELSE Destroyed(dialogs, d)
                /\ last' = [done EXCEPT !.msg = IF shown.raised THEN "exception"
                                                 ELSE "assigned",
                                        !.asked = Cardinality(dups)]
        /\ UNCHANGED <<roster, image, cv_bgr, photo_path, scale, offset, canvas>>

Min(S) == CHOOSE m \in S : \A n \in S : m <= n

\* App.reassign_selected, lines 271-275: the first roster index displayed as
\* disp, NoIdx when there is none
IdxByDisplay(df, disp) ==
    LET hits == { i \in 0..(Len(df) - 1) : GetDisplay(df, i) = disp }
    IN  IF hits = {} THEN NoIdx ELSE Min(hits)

\* App.reassign_selected, lines 279-282: the position of the first box
\* assigned idx, 0 when there is none
FaceByIdx(fs, idx) ==
    LET hits == { k \in 1..Len(fs) : fs[k].assigned_idx = idx }
    IN  IF hits = {} THEN 0 ELSE Min(hits)

\* App.reassign_selected with row sel of the present list selected
ReassignSelected(sel) ==
    LET idx == IdxByDisplay(roster, present_list[sel])
        k == IF idx = NoIdx THEN 0 ELSE FaceByIdx(faces, idx)
    IN  /\ k > 0 => BagCardinality(dialogs) < MaxDialogs
        /\ dialogs' = IF k > 0 THEN Opened(dialogs, AssignDialog(roster, k)) ELSE dialogs
        /\ last' = [Last("reassign_selected", "") EXCEPT !.idx = idx, !.hit = k]
        /\ UNCHANGED <<roster, image, cv_bgr, photo_path, faces, scale, offset,
                       canvas, present_list>>

\* App.remove_selected, lines 290-294, from faces[k] on: the position of the
\* first assigned box displayed as disp (0 when there is none), and whether
\* get_display raised KeyError on the way
RECURSIVE RemoveScan(_, _, _, _)
RemoveScan(fs, df, k, disp) ==
    IF k > Len(fs) THEN [pos |-> 0, raised |-> FALSE]
    ELSE LET a == fs[k].assigned_idx
         IN  IF a = NoIdx THEN RemoveScan(fs, df, k + 1, disp)
             ELSE IF ~HasIdx(df, a) THEN [pos |-> 0, raised |-> TRUE]
             ELSE IF GetDisplay(df, a) = disp THEN [pos |-> k, raised |-> FALSE]
             ELSE RemoveScan(fs, df, k + 1, disp)

\* App.remove_selected with row sel of the present list selected
RemoveSelected(sel) ==
    LET found == RemoveScan(faces, roster, 1, present_list[sel])
        cleared == IF found.pos > 0
                   THEN [faces EXCEPT ![found.pos].assigned_idx = NoIdx]
                   ELSE faces
        shown == RefreshPresentList(cleared, roster)
    IN  /\ IF found.raised
           THEN /\ last' = Last("remove_selected", "exception")
                /\ UNCHANGED <<faces, present_list>>
           ELSE /\ faces' = cleared
                /\ present_list' = shown.list
                /\ last' = [Last("remove_selected",
                                 IF shown.raised THEN "exception" ELSE "")
                            EXCEPT !.hit = found.pos]
        /\ UNCHANGED <<roster, image, cv_bgr, photo_path, scale, offset, canvas,
                       dialogs>>

\* SaveNoRoster without the test of line 298
SaveNoRosterUnguarded ==
    /\ roster = <<>>
    /\ last' = Last("save_attendance", "Saved")
    /\ UNCHANGED <<roster, image, cv_bgr, photo_path, faces, scale, offset,
                   canvas, present_list, dialogs>>

\* App.save_attendance without a roster
SaveNoRoster ==
    /\ roster = <<>>
    /\ last' = Last("save_attendance", "No Roster")
    /\ UNCHANGED <<roster, image, cv_bgr, photo_path, faces, scale, offset,
                   canvas, present_list, dialogs>>

\* datetime.now() read once per row, lines 307-315: the seconds since
\* line 301 read it, for n rows
Clocks(n) ==
    { t \in [1..n -> 0..MaxClock] : \A i \in 1..(n - 1) : t[i] <= t[i + 1] }

\* BuildReport testing the row number, not the roster index, against
\* present_idxs
BuildReportRowNumber(df, fs, path, at) ==
    LET present_idxs == { fs[k].assigned_idx : k \in { j \in 1..Len(fs) : fs[j].assigned_idx # NoIdx } }
    IN  [k \in 1..Len(df) |->
            [Admission_No |-> df[k].Admission_No,
             Name |-> df[k].Name,
             Section |-> df[k].Section,
             Status |-> IF k \in present_idxs THEN "Present" ELSE "Absent",
             Photo |-> path,
             Saved_At |-> at[k]]]

\* App.save_attendance, lines 305-316: the rows of the DataFrame, row i
\* built when the clock reads at[i]
BuildReport(df, fs, path, at) ==
    LET present_idxs == { fs[k].assigned_idx : k \in { j \in 1..Len(fs) : fs[j].assigned_idx # NoIdx } }
    IN  [k \in 1..Len(df) |->
            [Admission_No |-> df[k].Admission_No,
             Name |-> df[k].Name,
             Section |-> df[k].Section,
             Status |-> IF (k - 1) \in present_idxs THEN "Present" ELSE "Absent",
             Photo |-> path,
             Saved_At |-> at[k]]]

\* App.save_attendance with a roster.  Whether to_excel then writes the rows
\* or raises changes only the message box shown.
SaveAttendance(at) ==
    /\ roster # <<>>
    /\ last' = [Last("save_attendance", "Saved")
                EXCEPT !.report = BuildReport(roster, faces, photo_path, at)]
    /\ UNCHANGED <<roster, image, cv_bgr, photo_path, faces, scale, offset,
                   canvas, present_list, dialogs>>

\* ---------------------------------------------------------------- behaviour
\* The callbacks Tk runs, one at a time, on the operator's events
Next ==
    \/ \E file \in CsvFiles : LoadRoster(file)
    \/ \E file \in PhotoFiles : OpenPhoto(file)
    \/ \E cv \in CanvasSizes : OnResize(cv)
    \/ DetectNoPhoto
    \/ \E rects \in DetectorOutputs(cv_bgr) : DetectFaces(rects)
    \/ \E p \in ClickPoints : OnClick(p)
    \/ \E d \in BagToSet(dialogs), q \in DialogQueries : OnType(d, q)
    \/ \E d \in BagToSet(dialogs) : Cancel(d)
    \/ \E d \in BagToSet(dialogs) : DoAssignNoSelection(d)
    \/ \E d \in BagToSet(dialogs) : \E sel \in 1..Len(d.items) :
          \E declineAt \in 0..MaxFaces : DoAssign(d, sel, declineAt)
    \/ \E sel \in 1..Len(present_list) : ReassignSelected(sel)
    \/ \E sel \in 1..Len(present_list) : RemoveSelected(sel)
    \/ SaveNoRoster
    \/ \E at \in Clocks(Len(roster)) : SaveAttendance(at)

Spec == Init /\ [][Next]_vars

\* The same callbacks with the window resized and clicked at will
NextView ==
    \/ \E file \in ViewPhotoFiles : OpenPhoto(file)
    \/ \E cv \in ViewCanvasSizes : OnResize(cv)
    \/ \E rects \in DetectorOutputs(cv_bgr) : DetectFaces(rects)
    \/ \E p \in ViewClickPoints : OnClick(p)
    \/ \E d \in BagToSet(dialogs) : Cancel(d)

SpecView == Init /\ [][NextView]_vars

\* The same callbacks with every short text typed into the search box
NextSearch ==
    \/ \E file \in SearchCsvFiles : LoadRoster(file)
    \/ OpenPhoto(BigJpg)
    \/ OnResize(Canvas(400, 400))
    \/ \E rects \in DetectorOutputs(cv_bgr) : DetectFaces(rects)
    \/ OnClick(<<125, 175>>)
    \/ \E d \in BagToSet(dialogs), q \in SearchQueries : OnType(d, q)
    \/ \E d \in BagToSet(dialogs) : Cancel(d)

SpecSearch == Init /\ [][NextSearch]_vars

\* The same callbacks with rosters reloaded between assignments
NextRoster ==
    \/ \E file \in RosterCsvFiles : LoadRoster(file)
    \/ OpenPhoto(BigJpg)
    \/ OnResize(Canvas(400, 400))
    \/ \E rects \in DetectorOutputs(cv_bgr) : DetectFaces(rects)
    \/ \E p \in RosterClickPoints : OnClick(p)
    \/ \E d \in BagToSet(dialogs) : Cancel(d)
    \/ \E d \in BagToSet(dialogs) : \E sel \in 1..Len(d.items) :
          \E declineAt \in 0..MaxFaces : DoAssign(d, sel, declineAt)
    \/ \E sel \in 1..Len(present_list) : ReassignSelected(sel)
    \/ \E sel \in 1..Len(present_list) : RemoveSelected(sel)
    \/ SaveNoRoster

SpecRoster == Init /\ [][NextRoster]_vars

\* ---------------------------------------------------------------- claims
Max(S) == CHOOSE m \in S : \A n \in S : m >= n

\* the step is do_assign with a listbox row selected
IsAssignStep == last'.op = "do_assign" /\ last'.idx # NoIdx

\* the boxes of the batch, other than the dialog's own, that were assigned
\* the selected index before the step
BoundBefore ==
    { o \in 1..Len(faces) :
        /\ ~(last'.live /\ o = last'.pos)
        /\ faces[o].assigned_idx = last'.idx }

\* C1: duplicate-binding gate.  A do_assign of entry E to a box while another
\* box of the batch is assigned E changes no assigned_idx unless every
\* confirmation was asked and answered yes; a declined confirmation leaves
\* every assigned_idx as it was; once confirmed, the box and the boxes that
\* held E before are all assigned E.
C1_DuplicateGate ==
    [][ IsAssignStep =>
          /\ last'.msg = "declined" => faces' = faces /\ last'.asked >= 1
          /\ (BoundBefore # {} /\ faces' # faces) =>
                /\ last'.msg # "declined"
                /\ last'.asked = Cardinality(BoundBefore)
          /\ (BoundBefore # {} /\ last'.msg # "declined") =>
                /\ last'.asked >= 1
                /\ \A o \in BoundBefore : faces'[o].assigned_idx = last'.idx
                /\ last'.live => faces'[last'.pos].assigned_idx = last'.idx
      ]_vars

\* a confirmed duplicate: do_assign asked, was answered yes, and two boxes of
\* the batch are now assigned the same entry
C1_Witness ==
    /\ last.op = "do_assign" /\ last.msg = "assigned" /\ last.asked >= 1 /\ last.live
    /\ faces[last.pos].assigned_idx = last.idx
    /\ \E o \in 1..Len(faces) : o # last.pos /\ faces[o].assigned_idx = last.idx

\* C2: entry-index validity.  Every assigned_idx held by a box of the batch
\* is an index of the loaded roster.
C2_EntryIndexValid ==
    \A k \in 1..Len(faces) :
        faces[k].assigned_idx # NoIdx => HasIdx(roster, faces[k].assigned_idx)

\* the roster indices assigned to at least one box of the batch
PresentEntries ==
    { i \in 0..(Len(roster) - 1) : \E k \in 1..Len(faces) : faces[k].assigned_idx = i }

Saved == last.op = "save_attendance" /\ last.msg = "Saved"

\* C3: report content.  save_attendance builds one row per roster entry, in
\* roster order, and row i is Present exactly when some box of the batch is
\* assigned i.
C3_ReportContent ==
    Saved =>
        /\ Len(last.report) = Len(roster)
        /\ \A i \in 0..(Len(roster) - 1) :
              LET row == last.report[i + 1]
              IN  /\ row.Admission_No = roster[i + 1].Admission_No
                  /\ row.Name = roster[i + 1].Name
                  /\ row.Section = roster[i + 1].Section
                  /\ row.Status \in {"Present", "Absent"}
                  /\ row.Status = "Present" <=> i \in PresentEntries

\* the scenario of the claim: roster Ann, Bob, one box assigned to Ann, the
\* report reads Ann Present, Bob Absent
C3_Witness ==
    /\ Saved
    /\ roster = <<Ann, Bob>>
    /\ Cardinality({ k \in 1..Len(faces) : faces[k].assigned_idx # NoIdx }) = 1
    /\ last.report[1].Name = Ann.Name /\ last.report[1].Status = "Present"
    /\ last.report[2].Name = Bob.Name /\ last.report[2].Status = "Absent"

\* C4: reconciliation count.  The report has one row per roster entry and as
\* many Present rows as there are distinct assigned_idx values in the batch.
C4_ReconciliationCount ==
    Saved =>
        /\ Len(last.report) = Len(roster)
        /\ Cardinality({ k \in 1..Len(last.report) : last.report[k].Status = "Present" })
             = Cardinality({ faces[k].assigned_idx : k \in 1..Len(faces) } \ {NoIdx})

\* C5: single timestamp.  Every row of one report carries the same Saved_At.
C5_SingleTimestamp ==
    Saved =>
        \A i, j \in 1..Len(last.report) :
            last.report[i].Saved_At = last.report[j].Saved_At

\* the closed box [x, x+w] x [y, y+h] of fb holds the image point pt
InBox(fb, pt) ==
    /\ fb.x <= pt[1] /\ pt[1] <= fb.x + fb.w
    /\ fb.y <= pt[2] /\ pt[2] <= fb.y + fb.h

\* C6: hit-test precedence.  A click selects the last box of the batch whose
\* closed box holds the image point clicked, and opens the dialog for it;
\* it selects none when no box holds the point.
C6_HitTestPrecedence ==
    last.op = "on_click" =>
        LET inside == { k \in 1..Len(faces) : InBox(faces[k], last.pt) }
        IN  /\ last.hit = IF inside = {} THEN 0 ELSE Max(inside)
            /\ last.hit > 0 => \E d \in BagToSet(dialogs) : d.live /\ d.pos = last.hit

\* boxes 1 and 2 overlap, the click is on a point of both, box 2 is selected
C6_Witness ==
    /\ last.op = "on_click" /\ Len(faces) >= 2
    /\ InBox(faces[1], last.pt) /\ InBox(faces[2], last.pt)
    /\ faces[1].id = 1 /\ faces[2].id = 2
    /\ last.hit = 2

\* scale and offset are the fit draw_image stored for the photo in the canvas
Fitted == image # NoImage /\ canvas.w > 1 /\ canvas.h > 1

\* image coordinate p to the display with offset off, and back
RoundTripX(p) ==
    CanvasToImageCoords(ToDisplay(p, scale, offset[1]), offset[2], scale, offset)[1]
RoundTripY(p) ==
    CanvasToImageCoords(offset[1], ToDisplay(p, scale, offset[2]), scale, offset)[2]

Abs(n) == IF n < 0 THEN -n ELSE n

\* C7 as claimed: the round trip of every point of the image is within 1 of
\* the point, for every fit.
C7_RoundTripWithinOne ==
    Fitted =>
        /\ \A px \in 0..image.w : Abs(RoundTripX(px) - px) <= 1
        /\ \A py \in 0..image.h : Abs(RoundTripY(py) - py) <= 1

\* ceil(1/scale)
CeilInverse(sc) == (sc.d + sc.n - 1) \div sc.n

\* C7, amended: the round trip of every point of the image is never beyond
\* the point and falls short of it by at most ceil(1/scale): by at most 1
\* when the photo is not downscaled (scale >= 1).
C7_RoundTripBound ==
    Fitted =>
        /\ \A px \in 0..image.w :
              /\ 0 <= px - RoundTripX(px)
              /\ px - RoundTripX(px) <= CeilInverse(scale)
              /\ scale.n >= scale.d => px - RoundTripX(px) <= 1
        /\ \A py \in 0..image.h :
              /\ 0 <= py - RoundTripY(py)
              /\ py - RoundTripY(py) <= CeilInverse(scale)
              /\ scale.n >= scale.d => py - RoundTripY(py) <= 1

\* draw_image has fitted the 800 x 600 photo into the 200 x 200 canvas, scale
\* 1/4, where the round trip of x = 3 is 0
C7_Witness ==
    /\ Fitted /\ image.w = 800 /\ canvas.w = 200
    /\ scale = Rat(1, 4) /\ offset = <<0, 25>>
    /\ RoundTripX(3) = 0

\* C8 as claimed: 800 x 600 in 400 x 400 gives scale 0.5 and offset (0, 100).
C8_FitScenario ==
    (image = [w |-> 800, h |-> 600] /\ canvas = Canvas(400, 400)) =>
        scale = Rat(1, 2) /\ offset = <<0, 100>>

\* C8, amended: 800 x 600 in 400 x 400 gives scale 0.5 and offset (0, 50).
C8_FitScenarioCentred ==
    (image = [w |-> 800, h |-> 600] /\ canvas = Canvas(400, 400)) =>
        scale = Rat(1, 2) /\ offset = <<0, 50>>

\* draw_image has just fitted the 800 x 600 photo into the 400 x 400 canvas
C8_Witness ==
    /\ image = [w |-> 800, h |-> 600] /\ canvas = Canvas(400, 400)
    /\ last.op \in {"open_photo", "on_resize"} /\ last.msg = ""

\* q occurs in s
Occurs(q, s) == \E a, b \in 0..Len(s) : a <= b /\ SubSeq(s, a + 1, b) = q

\* the roster indices the claim has search return for the text typed
SearchClaimed(df, query) ==
    { i \in 0..(Len(df) - 1) :
        \/ Occurs(Lower(Strip(query)), Lower(df[i + 1].Name))
        \/ Occurs(Lower(Strip(query)), Lower(df[i + 1].Admission_No)) }

\* C9: roster search.  search returns, in roster order, exactly the indices
\* whose name or admission number contains the trimmed text, letter case
\* ignored in both; every index returned is an index of the roster.
C9_Search ==
    last.op = "on_type" =>
        /\ \A a, b \in 1..Len(last.found) : a < b => last.found[a] < last.found[b]
        /\ { last.found[a] : a \in 1..Len(last.found) } = SearchClaimed(roster, last.q)

\* the boxes a detector result gives: ids 1..N in the order received, none
\* assigned
FreshBatch(fs, rects) ==
    /\ Len(fs) = Len(rects)
    /\ \A i \in 1..Len(rects) :
          /\ fs[i].id = i /\ fs[i].assigned_idx = NoIdx
          /\ Rect(fs[i].x, fs[i].y, fs[i].w, fs[i].h) = rects[i]

\* fs and gs are the same boxes but for assigned_idx
SameBoxes(fs, gs) ==
    /\ Len(fs) = Len(gs)
    /\ \A i \in 1..Len(fs) : [fs[i] EXCEPT !.assigned_idx = NoIdx]
                               = [gs[i] EXCEPT !.assigned_idx = NoIdx]

\* C10: batch lifecycle.  After a detect_faces that ran the detector the
\* batch is the rectangles returned, ids 1..N in order, none assigned; after
\* a successful open_photo it is empty; only these two, do_assign and
\* remove_selected change the batch, the last two nothing but assigned_idx.
C10_BatchLifecycle ==
    [][ /\ (last'.op = "detect_faces" /\ last'.msg # "No Photo") =>
              \E rects \in DetectorOutputs(cv_bgr) : FreshBatch(faces', rects)
        /\ (last'.op = "open_photo" /\ last'.msg = "") => faces' = <<>>
        /\ faces' # faces =>
              last'.op \in {"detect_faces", "open_photo", "do_assign", "remove_selected"}
        /\ last'.op \in {"do_assign", "remove_selected"} => SameBoxes(faces, faces')
      ]_vars

\* detect_faces has replaced a batch that held an assignment (the present
\* list still shows it) by two fresh boxes
C10_Witness ==
    /\ last.op = "detect_faces" /\ last.msg = ""
    /\ Len(faces) = 2 /\ \A k \in 1..2 : faces[k].assigned_idx = NoIdx
    /\ present_list # <<>>

\* C11: atomic failure.  A load_roster or open_photo that ends in its error
\* box leaves the roster, the image, the photo path, the pixels kept for the
\* detector and the batch with its assignments exactly as they were.
C11_AtomicFailure ==
    [][ (/\ last'.op \in {"load_roster", "open_photo"}
         /\ last'.msg \in {"Roster Error", "Photo Error"}) =>
            UNCHANGED <<roster, image, photo_path, cv_bgr, faces>>
      ]_vars

\* C12: empty-roster save.  save_attendance with a roster of zero entries
\* shows the "No Roster" box, builds no report and changes nothing.
C12_EmptyRosterSave ==
    [][ (last'.op = "save_attendance" /\ roster = <<>>) =>
            /\ last'.msg = "No Roster"
            /\ last'.report = <<>>
            /\ UNCHANGED <<roster, image, cv_bgr, photo_path, faces, scale,
                           offset, canvas, present_list, dialogs>>
      ]_vars

\* save_attendance was refused for a roster reloaded without rows while a
\* box of the batch is still assigned
C12_Witness ==
    /\ last.op = "save_attendance" /\ last.msg = "No Roster"
    /\ roster = <<>>
    /\ \E k \in 1..Len(faces) : faces[k].assigned_idx # NoIdx

\* C13: no stale fit at hit-test time.  Whenever on_click has hit-tested a
\* click against a batch that is not empty, the canvas is wider and higher
\* than 1 and scale and offset are the fit of the image in that canvas.
C13_NoStaleFit ==
    (last.op = "on_click" /\ faces # <<>>) =>
        /\ Fitted
        /\ scale = Fit(image.w, image.h, canvas.w, canvas.h).scale
        /\ offset = << Fit(image.w, image.h, canvas.w, canvas.h).x_off,
                       Fit(image.w, image.h, canvas.w, canvas.h).y_off >>

\* floor(n/d) for d > 0
Floor(n, d) == n \div d

\* C14: display-to-image rounding.  on_click maps the canvas point (sx, sy)
\* to floor((sx - offset_x)/scale), floor((sy - offset_y)/scale); a point left
\* of or above the image maps to a negative coordinate and hits no box.
C14_FloorRounding ==
    [][ \A p \in ViewClickPoints :
          OnClick(p) =>
            /\ last'.pt = << Floor((p[1] - offset[1]) * scale.d, scale.n),
                             Floor((p[2] - offset[2]) * scale.d, scale.n) >>
            /\ p[1] < offset[1] => last'.pt[1] < 0
            /\ p[2] < offset[2] => last'.pt[2] < 0
            /\ (p[1] < offset[1] \/ p[2] < offset[2]) => last'.hit = 0
      ]_vars

\* the step ran draw_image to its end in a canvas wider and higher than 1
Drew ==
    /\ last'.op \in {"open_photo", "on_resize", "detect_faces"}
    /\ last'.msg = ""
    /\ image' # NoImage /\ canvas'.w > 1 /\ canvas'.h > 1

\* min(cw/iw, ch/ih)
MinRatio(iw, ih, cw, ch) ==
    IF cw * ih <= ch * iw THEN Rat(cw, iw) ELSE Rat(ch, ih)

\* floor((v - i*sc)/2): half the margin left by the exact scaled length
HalfExactMargin(v, i, sc) == Floor(v * sc.d - i * sc.n, 2 * sc.d)

\* floor((v - floor(i*sc))/2): half the margin left by the scaled length
\* in whole pixels
HalfPixelMargin(v, i, sc) == Floor(v - Floor(i * sc.n, sc.d), 2)

AssignedEntries(fs) ==
    LET first(k) == /\ fs[k].assigned_idx # NoIdx
                    /\ \A j \in 1..(k - 1) : fs[j].assigned_idx # fs[k].assigned_idx
        firsts == SelectSeq([k \in 1..Len(fs) |-> k], first)
    IN  [r \in 1..Len(firsts) |-> fs[firsts[r]].assigned_idx]

\* the present list has one row per entry assigned in the batch, in that
\* order: row r is the row of entry AssignedEntries(faces)[r]
ListShowsBatch ==
    /\ C2_EntryIndexValid
    /\ present_list = [r \in 1..Len(AssignedEntries(faces)) |->
                          GetDisplay(roster, AssignedEntries(faces)[r])]

\* no assigned box of the batch is displayed as the text disp
NoBoxDisplayed(disp) ==
    \A k \in 1..Len(faces) :
        faces[k].assigned_idx # NoIdx => GetDisplay(roster, faces[k].assigned_idx) # disp

\* C16: remove selected.  With every assigned index in the roster,
\* remove_selected on the present-list row of entry E clears the assignment
\* of one box that was assigned E and changes no other box, raises nothing,
\* and E keeps a row while another box is assigned E; on a row that no box
\* of the batch matches it changes no assignment and raises nothing.
C16_RemoveSelected ==
    [][ \A sel \in 1..Len(present_list) :
          (RemoveSelected(sel) /\ C2_EntryIndexValid) =>
            /\ ListShowsBatch =>
                  LET E == AssignedEntries(faces)[sel]
                  IN  /\ last'.msg = ""
                      /\ \E k \in 1..Len(faces) :
                            /\ faces[k].assigned_idx = E
                            /\ faces' = [faces EXCEPT ![k].assigned_idx = NoIdx]
                      /\ (\E k \in 1..Len(faces) : faces'[k].assigned_idx = E) =>
                            \E r \in 1..Len(present_list') :
                                present_list'[r] = GetDisplay(roster, E)
            /\ NoBoxDisplayed(present_list[sel]) =>
                  faces' = faces /\ last'.msg = ""
      ]_vars

\* C17: reassign via the present list.  With the present list showing the
\* batch, reassign_selected on the row of entry E opens the dialog for the
\* first box of the batch assigned E.
C17_ReassignSelected ==
    [][ \A sel \in 1..Len(present_list) :
          (ReassignSelected(sel) /\ ListShowsBatch) =>
            LET E == AssignedEntries(faces)[sel]
                k == Min({ j \in 1..Len(faces) : faces[j].assigned_idx = E })
            IN  /\ last'.hit = k
                /\ dialogs' = Opened(dialogs, AssignDialog(roster, k))
      ]_vars

\* the callback that ran last is one of the operator events of C18 and ran
\* to its end
EventCompleted ==
    \/ last.op \in {"load_roster", "open_photo", "detect_faces", "remove_selected"}
          /\ last.msg = ""
    \/ last.op = "do_assign" /\ last.msg = "assigned"

\* C18: present list consistency.  After load_roster, open_photo,
\* detect_faces, do_assign or remove_selected has run to its end, the present
\* list has one row per distinct entry assigned in the batch, in the order of
\* the first box assigned each; it is empty when no box is assigned.
C18_PresentListConsistent ==
    EventCompleted =>
        /\ Len(present_list) = Len(AssignedEntries(faces))
        /\ \A r \in 1..Len(present_list) :
              /\ HasIdx(roster, AssignedEntries(faces)[r])
              /\ present_list[r] = GetDisplay(roster, AssignedEntries(faces)[r])

\* the step is a do_assign that went past the confirmations and wrote
\* fb.assigned_idx
Committed == last'.op = "do_assign" /\ last'.msg \in {"assigned", "exception"}

\* C19: no commit through a stale dialog.  A do_assign that commits writes
\* the assigned_idx of a box of the current batch and of no other box, the
\* index is an index of the current roster, and one confirmation was asked
\* for each other box of the current batch assigned that index.
C19_NoStaleCommit ==
    [][ Committed =>
          /\ last'.live
          /\ last'.pos \in 1..Len(faces)
          /\ faces' = [faces EXCEPT ![last'.pos].assigned_idx = last'.idx]
          /\ HasIdx(roster, last'.idx)
          /\ last'.asked = Cardinality({ o \in 1..Len(faces) :
                                           /\ o # last'.pos
                                           /\ faces[o].assigned_idx = last'.idx })
      ]_vars

====
